---- MODULE Spec2Model ----
(***************************************************************************)
(* A model of the minus pager engine: the event dispatcher (handle_event   *)
(* of core/ev_handler.rs), the hand-off of the terminal between the        *)
(* dispatcher and the input-polling thread (the user_input_active flag,    *)
(* its lock and its condition), and the keybinding registry                *)
(* (HashedEventRegister of input/event_wrapper.rs).                        *)
(***************************************************************************)
EXTENDS Integers, Sequences, FiniteSets, TLC

\* ------------------------------------------------------------------ bounds
\* Longest content text, in characters.
MaxLen == 2
\* Largest count carried by MoveToNextMatch / MoveToPrevMatch.
MaxCount == 2
\* Search InputEvents the polling thread can have in the channel.
MaxSent == 1
\* Largest column / row of a mouse input, largest dimension of a resize input.
MaxCoord == 1
\* Most exit callbacks the host registers.
MaxCallbacks == 2
\* Most digits in the prefix-count buffer.
MaxDigits == 2
\* The width of usize, in bits.
UsizeBits == 4

\* The terminal the pager state is constructed on: narrower than the longest
\* text, so that lines wrap, and no higher than the content, so that it
\* scrolls.
InitRows == MaxLen
InitCols == MaxLen - 1
\* Longest content the texts appended in the formatting runs add up to.
MaxContent == MaxLen + 1

\* ------------------------------------------------------------------ values
\* Option<T> is a sequence of length 0 or 1.
None == <<>>
Some(x) == <<x>>
IsSome(o) == Len(o) = 1
Unwrap(o) == o[1]

Min(a, b) == IF a < b THEN a ELSE b
\* usize::saturating_sub
SatSub(a, b) == IF a > b THEN a - b ELSE 0

\* Characters of content texts; NL is the line terminator.
NL == "\n"
Chars == {"a", NL}
\* Every text of at most n characters.
Texts(n) == UNION {[1..k -> Chars] : k \in 0..n}
\* What the user can type at the search prompt: nothing, a literal, or an
\* unbalanced bracket expression.
SearchStrings == {<<>>, <<"a">>, <<"b">>, <<"[">>}
SearchModes == {"Forward", "Reverse"}
Messages == {"hello"}
Prompts == {"minus", "less"}
\* LineNumbers: the display of line numbers is off or on.
LineNumbers == {"Disabled", "Enabled"}
ExitStrategies == {"ProcessQuit", "PagerQuit"}
Classifiers == {"DefaultInputClassifier", "custom"}
ExitCallbacks == {"f", "g"}
AppendStyles == {"FullRedraw", "PartialUpdate"}
InvalidRegexMessage == "Invalid regular expression. Press Enter"

\* ------------------------------------------------------------------ state
VARIABLES
    p,                  \* the PagerState
    is_exitted,         \* Arc<AtomicBool>
    user_input_active,  \* the bool inside Mutex<bool>
    lock,               \* who holds the Mutex: "free", "dispatcher", "poller"
    dpc,                \* the dispatcher's position in handle_event
    ev,                 \* the Event being handled, or the last one handled
    string,             \* the result of search::fetch_input
    ret,                \* what handle_event returned: "none", "Ok", "Err"
    out,                \* the last thing written to the terminal
    ppc,                \* the input-polling thread's position
    sent,               \* Search InputEvents sent and not yet received
    exit_dispatched,    \* history: an Exit InputEvent has been dispatched
    before,             \* history: the state the Search being handled found
    input,              \* the last raw input classified, the prefix-count
                        \* buffer it found, and the InputEvent it gave
    map,                \* HashedEventRegister.0
    reg_call,           \* the last registry operation and its argument
    reg_ret             \* how the last registry operation ended

vars == <<p, is_exitted, user_input_active, lock, dpc, ev, string, ret, out,
          ppc, sent, exit_dispatched, before, input, map, reg_call, reg_ret>>
disp_vars == <<p, is_exitted, user_input_active, dpc, ev, string, ret, out,
               exit_dispatched, before>>
reg_vars == <<map, reg_call, reg_ret>>

\* ------------------------------------------------- external collaborators
\* str::lines(): the text split at line terminators; a trailing terminator
\* opens no further line.
RECURSIVE StrLines(_)
StrLines(s) ==
    IF s = <<>> THEN <<>>
    ELSE LET nl == {i \in 1..Len(s) : s[i] = NL}
         IN IF nl = {} THEN <<s>>
            ELSE LET i == CHOOSE k \in nl : \A j \in nl : k <= j
                 IN <<SubSeq(s, 1, i - 1)>> \o StrLines(SubSeq(s, i + 1, Len(s)))

\* One line wrapped into display rows of at most cols characters; an empty
\* line is one empty row.
RECURSIVE Wrap(_, _)
Wrap(line, cols) ==
    IF Len(line) <= cols \/ cols = 0 THEN <<line>>
    ELSE <<SubSeq(line, 1, cols)>> \o Wrap(SubSeq(line, cols + 1, Len(line)), cols)

RECURSIVE WrapAll(_, _)
WrapAll(ls, cols) ==
    IF ls = <<>> THEN <<>>
    ELSE Wrap(Head(ls), cols) \o WrapAll(Tail(ls), cols)

\* The rows of the lines ls, the first of which is line number k: each row
\* starts with the number of its line.
RECURSIVE NumberedWrapAll(_, _, _)
NumberedWrapAll(ls, cols, k) ==
    IF ls = <<>> THEN <<>>
    ELSE LET rows == Wrap(Head(ls), cols)
         IN [i \in 1..Len(rows) |-> <<ToString(k)>> \o rows[i]]
            \o NumberedWrapAll(Tail(ls), cols, k + 1)

\* The rows of the lines ls, the first of which is line number k.
FormatFrom(ls, cols, ln, k) ==
    IF ln = "Enabled" THEN NumberedWrapAll(ls, cols, k) ELSE WrapAll(ls, cols)

\* reformat_all(content, width, line_number_mode) -> display_rows.
Reformat(text, cols, ln) == FormatFrom(StrLines(text), cols, ln, 1)

\* regex::Regex::new: an unbalanced bracket expression does not compile.
Compiles(s) == \A i \in 1..Len(s) : s[i] # "["

\* Regex::is_match of a literal pattern on one display row.
IsMatch(pat, row) ==
    \E i \in 1..(Len(row) - Len(pat) + 1) : SubSeq(row, i, i + Len(pat) - 1) = pat

\* match_indices(content, pattern): the indices (from 0) of the matching rows.
MatchIndices(rows, term) ==
    IF IsSome(term)
    THEN {i \in 0..(Len(rows) - 1) : IsMatch(Unwrap(term), rows[i + 1])}
    ELSE {}

\* BTreeSet::iter().nth(k): the k-th smallest element, as an Option.
Nth(S, k) ==
    IF k < Cardinality(S)
    THEN Some(CHOOSE x \in S : Cardinality({y \in S : y < x}) = k)
    ELSE None

\* PagerState::format_prompt: the message overlays the prompt.
format_prompt(ps) ==
    [ps EXCEPT !.displayed_prompt =
        IF IsSome(ps.message) THEN Unwrap(ps.message) ELSE ps.prompt]

\* PagerState::format_lines: formatted_lines and search_idx are recomputed
\* from lines, cols and search_term.
format_lines(ps) ==
    LET rows == Reformat(ps.lines, ps.cols, ps.line_numbers)
    IN format_prompt([ps EXCEPT !.formatted_lines = rows,
                                !.search_idx = MatchIndices(rows, ps.search_term)])

\* search::next_nth_match: move to the n-th match after upper_mark, never
\* past the last one.
next_nth_match(ps, n) ==
    LET after == {i \in 0..(Cardinality(ps.search_idx) - 1) :
                     Unwrap(Nth(ps.search_idx, i)) > ps.upper_mark}
    IN IF after = {} THEN ps
       ELSE LET nearest == CHOOSE i \in after : \A j \in after : i <= j
                mark == Min(nearest + SatSub(n, 1), Cardinality(ps.search_idx) - 1)
            IN format_prompt([ps EXCEPT !.search_mark = mark,
                                        !.upper_mark = Unwrap(Nth(ps.search_idx, mark))])

\* Whether the text ends inside a line: it is not empty and its last
\* character is not the line terminator.
Unterminated(text) == text # <<>> /\ text[Len(text)] # NL

\* PagerState::append_str: the text is appended to lines. For a partial
\* update the formatter hands back fmt_line, the rows of the last line with
\* the text appended to it when that line was unterminated and of the text
\* alone when it was not, and num_unterminated, the number of rows the
\* unterminated last line had.
append_str(ps, text) ==
    LET old == StrLines(ps.lines)
        open == Unterminated(ps.lines)
        kept == IF open THEN SubSeq(old, 1, Len(old) - 1) ELSE old
        last == IF open THEN old[Len(old)] ELSE <<>>
    IN [ps |-> [ps EXCEPT !.lines = ps.lines \o text],
        fmt_line |-> FormatFrom(StrLines(last \o text), ps.cols,
                                ps.line_numbers, Len(kept) + 1),
        num_unterminated |->
            IF open THEN Len(Wrap(last, ps.cols)) ELSE 0]

\* PagerState::append_str_on_unterminated: the rows of the unterminated last
\* line are dropped from formatted_lines and fmt_line is appended.
append_str_on_unterminated(ps, fmt_line, num_unterminated) ==
    LET keep == SatSub(Len(ps.formatted_lines), num_unterminated)
        rows == SubSeq(ps.formatted_lines, 1, keep) \o fmt_line
    IN [ps EXCEPT !.formatted_lines = rows,
                  !.search_idx = MatchIndices(rows, ps.search_term)]

\* display::draw_for_change leaves in um a mark that shows a full screen.
ClampMark(ps, um) ==
    LET line_count == Len(ps.formatted_lines)
        writable == SatSub(ps.rows, 1)
    IN IF um + Min(writable, line_count) > line_count
       THEN SatSub(line_count, writable)
       ELSE um

\* The session loop stops pulling events once the exit flag is set.
SessionLoopRunning == ~is_exitted

\* ------------------------------------------------------------------ Init
\* PagerState::new
NewPagerState ==
    [lines |-> <<>>, formatted_lines |-> <<>>, upper_mark |-> 0,
     rows |-> InitRows, cols |-> InitCols,
     prompt |-> "minus", message |-> None, displayed_prompt |-> "minus",
     search_term |-> None, search_idx |-> {}, search_mark |-> 0,
     search_mode |-> "Forward",
     line_numbers |-> "Disabled", exit_strategy |-> "ProcessQuit",
     run_no_overflow |-> TRUE, input_classifier |-> "DefaultInputClassifier",
     exit_callbacks |-> <<>>, prefix_num |-> <<>>]

NoEvent == [type |-> "none", arg |-> <<>>]

\* No raw input: the blank of every field of a raw input.
NoEv ==
    [type |-> "-", code |-> "-", kind |-> "-", modifiers |-> "-",
     column |-> 0, row |-> 0]

\* How a registry operation ended, and the callback it returned.
Result(kind, v) == [kind |-> kind, v |-> v]

Init ==
    /\ p = NewPagerState
    /\ is_exitted = FALSE
    /\ user_input_active = TRUE
    /\ lock = "free"
    /\ dpc = "idle"
    /\ ev = NoEvent
    /\ string = <<>>
    /\ ret = "none"
    /\ out = "none"
    /\ ppc = "check"
    /\ sent = 0
    /\ exit_dispatched = FALSE
    /\ before = NewPagerState
    /\ input = [raw |-> NoEv, prefix_num |-> <<>>, rows |-> InitRows,
                upper_mark |-> 0, event |-> None]
    /\ map = {}
    /\ reg_call = <<"none", NoEv>>
    /\ reg_ret = Result("none", "-")

\* ------------------------------------------------------- the dispatcher
\* The session loop hands the next event to handle_event.
Receive(type, arg) ==
    /\ dpc = "idle"
    /\ SessionLoopRunning
    /\ ev' = [type |-> type, arg |-> arg]
    /\ sent' = IF type = "Search" THEN SatSub(sent, 1) ELSE sent
    /\ string' = <<>>
    /\ before' = IF type = "Search" THEN p ELSE NewPagerState

\* handle_event returns.
Return(r) ==
    /\ ret' = r
    /\ dpc' = "idle"

\* Event::SetData(text)
SetDataEffect(ps, text) == format_lines([ps EXCEPT !.lines = text])

SetData(text) ==
    /\ Receive("SetData", text)
    /\ p' = SetDataEffect(p, text)
    /\ Return("Ok")
    /\ out' = "none"
    /\ UNCHANGED <<is_exitted, user_input_active, lock, ppc,
                   exit_dispatched, reg_vars, input>>

\* Event::AppendData(text): the formatter reports the style of the append,
\* and the dispatcher applies the full reformat or the partial update.
AppendDataEffectApplyingBoth(ps, text, style) ==
    LET r == append_str(ps, text)
    IN append_str_on_unterminated(format_lines(r.ps), r.fmt_line,
                                  r.num_unterminated)
AppendDataEffect(ps, text, style) ==
    LET r == append_str(ps, text)
    IN IF style = "FullRedraw" THEN format_lines(r.ps)
       ELSE append_str_on_unterminated(r.ps, r.fmt_line, r.num_unterminated)

AppendData(text, style) ==
    /\ Receive("AppendData", text)
    /\ p' = AppendDataEffect(p, text, style)
    /\ Return("Ok")
    /\ out' = "none"
    /\ UNCHANGED <<is_exitted, user_input_active, lock, ppc,
                   exit_dispatched, reg_vars, input>>

\* is_exitted.store(true, Ordering::SeqCst)
ExitStoreMissing == is_exitted
ExitStore == TRUE

\* Event::UserInput(InputEvent::Exit), up to the store of the flag.

Exit ==
    /\ Receive("Exit", <<>>)
    /\ is_exitted' = ExitStore
    /\ exit_dispatched' = TRUE
    /\ dpc' = "cleanup"
    /\ ret' = "none"
    /\ out' = "none"
    /\ UNCHANGED <<p, user_input_active, lock, ppc, reg_vars, input>>

\* What handle_event returns after term::cleanup: the ? operator hands a
\* failure to the caller.
CleanupResultSwallowed(ok) == "Ok"
CleanupResult(ok) == IF ok THEN "Ok" ELSE "Err"

\* term::cleanup(&mut out, &p.exit_strategy, true)?
Cleanup(ok) ==
    /\ dpc = "cleanup"
    /\ out' = IF ok THEN "cleanup" ELSE out
    /\ Return(CleanupResult(ok))
    /\ UNCHANGED <<p, is_exitted, user_input_active, lock, ev, string, ppc,
                   exit_dispatched, sent, reg_vars, before, input>>

\* The mark is assigned after draw_for_change(..)? : a failed draw returns
\* before the assignment.
UpdateUpperMarkEffectCommittingFirst(ps, um, ok) ==
    [ps EXCEPT !.upper_mark = ClampMark(ps, um)]
UpdateUpperMarkEffect(ps, um, ok) ==
    IF ok THEN [ps EXCEPT !.upper_mark = ClampMark(ps, um)] ELSE ps

\* Event::UserInput(InputEvent::UpdateUpperMark(um))
UpdateUpperMark(um, ok) ==
    /\ Receive("UpdateUpperMark", <<um>>)
    /\ p' = UpdateUpperMarkEffect(p, um, ok)
    /\ IF ok
       THEN /\ out' = "draw_for_change"
            /\ Return("Ok")
       ELSE /\ out' = "none"
            /\ Return("Err")
    /\ UNCHANGED <<is_exitted, user_input_active, lock, ppc,
                   exit_dispatched, reg_vars, input>>

\* p.message = None; p.format_prompt();
RestorePromptEffectKeepingMessage(ps) == format_prompt(ps)
RestorePromptEffect(ps) == format_prompt([ps EXCEPT !.message = None])

\* Event::UserInput(InputEvent::RestorePrompt)
RestorePrompt ==
    /\ Receive("RestorePrompt", <<>>)
    /\ p' = RestorePromptEffect(p)
    /\ Return("Ok")
    /\ out' = "none"
    /\ UNCHANGED <<is_exitted, user_input_active, lock, ppc,
                   exit_dispatched, reg_vars, input>>

\* Event::SendMessage(message)
SendMessage(m) ==
    /\ Receive("SendMessage", <<m>>)
    /\ p' = format_prompt([p EXCEPT !.message = Some(m)])
    /\ Return("Ok")
    /\ out' = "none"
    /\ UNCHANGED <<is_exitted, user_input_active, lock, ppc,
                   exit_dispatched, reg_vars, input>>

\* Event::UserInput(InputEvent::UpdateTermArea(c, r))
UpdateTermArea(c, r) ==
    /\ Receive("UpdateTermArea", <<c, r>>)
    /\ p' = format_lines([p EXCEPT !.rows = r, !.cols = c])
    /\ Return("Ok")
    /\ out' = "none"
    /\ UNCHANGED <<is_exitted, user_input_active, lock, ppc,
                   exit_dispatched, reg_vars, input>>

\* p.line_numbers = l; p.format_lines();
SetLineNumbersEffectWithoutFormat(ps, l) == [ps EXCEPT !.line_numbers = l]
SetLineNumbersEffect(ps, l) == format_lines([ps EXCEPT !.line_numbers = l])

\* Event::UserInput(InputEvent::UpdateLineNumber(l))
UpdateLineNumber(l) ==
    /\ Receive("UpdateLineNumber", <<l>>)
    /\ p' = SetLineNumbersEffect(p, l)
    /\ Return("Ok")
    /\ out' = "none"
    /\ UNCHANGED <<is_exitted, user_input_active, lock, ppc,
                   exit_dispatched, reg_vars, input>>

\* Event::SetLineNumbers(ln)
SetLineNumbers(ln) ==
    /\ Receive("SetLineNumbers", <<ln>>)
    /\ p' = SetLineNumbersEffect(p, ln)
    /\ Return("Ok")
    /\ out' = "none"
    /\ UNCHANGED <<is_exitted, user_input_active, lock, ppc,
                   exit_dispatched, reg_vars, input>>

\* p.prompt = prompt; p.format_prompt();
SetPromptEffectOnDisplayOnly(ps, prompt) ==
    [ps EXCEPT !.displayed_prompt =
        IF IsSome(ps.message) THEN Unwrap(ps.message) ELSE prompt]
SetPromptEffect(ps, prompt) == format_prompt([ps EXCEPT !.prompt = prompt])

\* Event::SetPrompt(prompt)
SetPrompt(prompt) ==
    /\ Receive("SetPrompt", <<prompt>>)
    /\ p' = SetPromptEffect(p, prompt)
    /\ Return("Ok")
    /\ out' = "none"
    /\ UNCHANGED <<is_exitted, user_input_active, lock, ppc,
                   exit_dispatched, reg_vars, input>>

\* Event::SetExitStrategy(es) => p.exit_strategy = es
SetExitStrategy(es) ==
    /\ Receive("SetExitStrategy", <<es>>)
    /\ p' = [p EXCEPT !.exit_strategy = es]
    /\ Return("Ok")
    /\ out' = "none"
    /\ UNCHANGED <<is_exitted, user_input_active, lock, ppc,
                   exit_dispatched, reg_vars, input>>

\* Event::SetRunNoOverflow(val) => p.run_no_overflow = val
SetRunNoOverflow(val) ==
    /\ Receive("SetRunNoOverflow", <<val>>)
    /\ p' = [p EXCEPT !.run_no_overflow = val]
    /\ Return("Ok")
    /\ out' = "none"
    /\ UNCHANGED <<is_exitted, user_input_active, lock, ppc,
                   exit_dispatched, reg_vars, input>>

\* Event::SetInputClassifier(clf) => p.input_classifier = clf
SetInputClassifier(clf) ==
    /\ Receive("SetInputClassifier", <<clf>>)
    /\ p' = [p EXCEPT !.input_classifier = clf]
    /\ Return("Ok")
    /\ out' = "none"
    /\ UNCHANGED <<is_exitted, user_input_active, lock, ppc,
                   exit_dispatched, reg_vars, input>>

\* p.exit_callbacks.push(cb)
pushInFront(callbacks, cb) == <<cb>> \o callbacks
push(callbacks, cb) == Append(callbacks, cb)

\* Event::AddExitCallback(cb)
AddExitCallback(cb) ==
    /\ Receive("AddExitCallback", <<cb>>)
    /\ Len(p.exit_callbacks) < MaxCallbacks
    /\ p' = [p EXCEPT !.exit_callbacks = push(p.exit_callbacks, cb)]
    /\ Return("Ok")
    /\ out' = "none"
    /\ UNCHANGED <<is_exitted, user_input_active, lock, ppc,
                   exit_dispatched, reg_vars, input>>

\* Event::UserInput(_): Number, Ignore, and the match events when no pattern
\* is set.
Ignored(type) ==
    /\ Receive(type, <<>>)
    /\ Return("Ok")
    /\ out' = "none"
    /\ UNCHANGED <<p, is_exitted, user_input_active, lock, ppc,
                   exit_dispatched, reg_vars, input>>

\* InputEvent::NextMatch | MoveToNextMatch(1), and MoveToNextMatch(n), each
\* guarded by p.search_term.is_some().
NextMatchEffect(ps, n) ==
    IF ~IsSome(ps.search_term) THEN ps
    ELSE IF n = 1 THEN next_nth_match(ps, 1)
    ELSE next_nth_match(ps, SatSub(n, 1))

\* InputEvent::PrevMatch | MoveToPrevMatch(1), and MoveToPrevMatch(n), each
\* guarded by p.search_term.is_some().
PrevMatchEffectWithoutEmptyCheck(ps, n) ==
    IF ~IsSome(ps.search_term) THEN ps
    ELSE LET mark == SatSub(ps.search_mark, n)
             ps1 == [ps EXCEPT !.search_mark = mark]
             y == Nth(ps.search_idx, mark)
         IN IF IsSome(y) /\ Unwrap(y) < ps.upper_mark
            THEN format_prompt([ps1 EXCEPT !.upper_mark = Unwrap(y)])
            ELSE ps1
PrevMatchEffect(ps, n) ==
    IF ~IsSome(ps.search_term) \/ ps.search_idx = {} THEN ps
    ELSE LET mark == SatSub(ps.search_mark, n)
             ps1 == [ps EXCEPT !.search_mark = mark]
             y == Nth(ps.search_idx, mark)
         IN IF IsSome(y) /\ Unwrap(y) < ps.upper_mark
            THEN format_prompt([ps1 EXCEPT !.upper_mark = Unwrap(y)])
            ELSE ps1

NextMatch ==
    /\ Receive("NextMatch", <<>>)
    /\ p' = NextMatchEffect(p, 1)
    /\ Return("Ok")
    /\ out' = "none"
    /\ UNCHANGED <<is_exitted, user_input_active, lock, ppc,
                   exit_dispatched, reg_vars, input>>

PrevMatch ==
    /\ Receive("PrevMatch", <<>>)
    /\ p' = PrevMatchEffect(p, 1)
    /\ Return("Ok")
    /\ out' = "none"
    /\ UNCHANGED <<is_exitted, user_input_active, lock, ppc,
                   exit_dispatched, reg_vars, input>>

MoveToNextMatch(n) ==
    /\ Receive("MoveToNextMatch", <<n>>)
    /\ p' = NextMatchEffect(p, n)
    /\ Return("Ok")
    /\ out' = "none"
    /\ UNCHANGED <<is_exitted, user_input_active, lock, ppc,
                   exit_dispatched, reg_vars, input>>

MoveToPrevMatch(n) ==
    /\ Receive("MoveToPrevMatch", <<n>>)
    /\ p' = PrevMatchEffect(p, n)
    /\ Return("Ok")
    /\ out' = "none"
    /\ UNCHANGED <<is_exitted, user_input_active, lock, ppc,
                   exit_dispatched, reg_vars, input>>

\* Event::UserInput(InputEvent::Search(m)): p.search_mode = m, then the
\* hand-off of the terminal.
Search(m) ==
    /\ Receive("Search", <<m>>)
    /\ p' = [p EXCEPT !.search_mode = m]
    /\ dpc' = "lock1"
    /\ ret' = "none"
    /\ out' = "none"
    /\ UNCHANGED <<is_exitted, user_input_active, lock, ppc,
                   exit_dispatched, reg_vars, input>>

\* let mut active = lock.lock();
SearchLock1 ==
    /\ dpc = "lock1"
    /\ lock = "free"
    /\ lock' = "dispatcher"
    /\ dpc' = "deactivate"
    /\ UNCHANGED <<p, is_exitted, user_input_active, ev, string, ret, out,
                   ppc, exit_dispatched, sent, reg_vars, before, input>>

\* *active = false; drop(active);
SearchDeactivate ==
    /\ dpc = "deactivate"
    /\ user_input_active' = FALSE
    /\ lock' = "free"
    /\ dpc' = "fetch_input"
    /\ UNCHANGED <<p, is_exitted, ev, string, ret, out, ppc, exit_dispatched,
                   sent, reg_vars, before, input>>

\* Where handle_event goes when search::fetch_input fails: the ? operator
\* returns the error to the caller.
FetchFailedRestart == "lock2"
FetchFailed == "idle"

\* let string = search::fetch_input(&mut out, p.search_mode, p.rows)?;
FetchInput(ok, s) ==
    /\ dpc = "fetch_input"
    /\ IF ok
       THEN /\ string' = s
            /\ out' = "fetch_input"
            /\ dpc' = "lock2"
            /\ ret' = ret
       ELSE /\ s = <<>>
            /\ string' = <<>>
            /\ out' = out
            /\ dpc' = FetchFailed
            /\ ret' = "Err"
    /\ UNCHANGED <<p, is_exitted, user_input_active, lock, ev, ppc,
                   exit_dispatched, sent, reg_vars, before, input>>

\* let mut active = lock.lock();
SearchLock2 ==
    /\ dpc = "lock2"
    /\ lock = "free"
    /\ lock' = "dispatcher"
    /\ dpc' = "activate"
    /\ UNCHANGED <<p, is_exitted, user_input_active, ev, string, ret, out,
                   ppc, exit_dispatched, sent, reg_vars, before, input>>

\* *active = true; drop(active);
SearchActivate ==
    /\ dpc = "activate"
    /\ user_input_active' = TRUE
    /\ lock' = "free"
    /\ dpc' = "notify"
    /\ UNCHANGED <<p, is_exitted, ev, string, ret, out, ppc, exit_dispatched,
                   sent, reg_vars, before, input>>

\* The pattern that failed to compile: message and prompt, nothing else.
InvalidRegexEffectStoringTerm(ps, s) ==
    format_prompt([ps EXCEPT !.search_term = Some(s),
                             !.message = Some(InvalidRegexMessage)])
InvalidRegexEffect(ps, s) ==
    format_prompt([ps EXCEPT !.message = Some(InvalidRegexMessage)])

\* if !string.is_empty() { ... }: what the entered text does to the state.
SearchEffectWithoutNextMatch(ps, s) ==
    IF s = <<>> THEN ps
    ELSE IF Compiles(s)
    THEN LET ps1 == format_lines([ps EXCEPT !.search_term = Some(s)])
         IN format_prompt([ps1 EXCEPT !.search_mark = 0])
    ELSE InvalidRegexEffect(ps, s)
SearchEffect(ps, s) ==
    IF s = <<>> THEN ps
    ELSE IF Compiles(s)
    THEN LET ps1 == format_lines([ps EXCEPT !.search_term = Some(s)])
             ps2 == [ps1 EXCEPT !.search_mark = 0]
         IN format_prompt(next_nth_match(ps2, 1))
    ELSE InvalidRegexEffect(ps, s)

\* Condvar::notify_one: a waiting thread leaves the wait set.
notify_one(pc) == IF pc = "waiting" THEN "woken" ELSE pc

\* cvar.notify_one(); and the rest of the Search arm; display::draw_full is
\* reached only with a pattern that compiled.
SearchFinish(ok) ==
    /\ dpc = "notify"
    /\ ppc' = notify_one(ppc)
    /\ p' = SearchEffect(p, string)
    /\ IF string # <<>> /\ Compiles(string)
       THEN /\ out' = IF ok THEN "draw_full" ELSE out
            /\ Return(IF ok THEN "Ok" ELSE "Err")
       ELSE /\ ok
            /\ out' = out
            /\ Return("Ok")
    /\ UNCHANGED <<is_exitted, user_input_active, lock, ev, string,
                   exit_dispatched, sent, reg_vars, input>>
    /\ before' = NewPagerState

\* ------------------------------------------------ the input-polling thread
\* The thread takes the lock to look at the flag.
PollerLock ==
    /\ ppc \in {"check", "woken"}
    /\ lock = "free"
    /\ lock' = "poller"
    /\ ppc' = "locked"
    /\ UNCHANGED <<p, is_exitted, user_input_active, dpc, ev, string, ret, out,
                   exit_dispatched, sent, reg_vars, before, input>>

\* The thread looks at the flag: inactive, it waits on the condition (which
\* releases the lock); active, it releases the lock and polls.
PollerCheck ==
    /\ ppc = "locked"
    /\ ppc' = IF user_input_active THEN "polling" ELSE "waiting"
    /\ lock' = "free"
    /\ UNCHANGED <<p, is_exitted, user_input_active, dpc, ev, string, ret, out,
                   exit_dispatched, sent, reg_vars, before, input>>

\* One poll of the raw terminal input ends; the input read may be one that
\* is classified as a Search InputEvent, which is sent to the dispatcher.
PollerPoll(send) ==
    /\ ppc = "polling"
    /\ send => sent < MaxSent
    /\ sent' = IF send THEN sent + 1 ELSE sent
    /\ ppc' = "check"
    /\ UNCHANGED <<disp_vars, lock, reg_vars, input>>

\* The dispatcher receives a Search InputEvent that the polling thread sent.
ReceiveSearch(m) ==
    /\ sent > 0
    /\ Search(m)

\* ------------------------------------------------------------------ Next
Marks == 0..(MaxLen + 1)
\* The texts the host appends while the content stays within n characters.
AppendTexts(n) ==
    {text \in Texts(MaxLen) \ {<<>>} : Len(p.lines) + Len(text) <= n}
\* The widths the terminal is resized to.
Widths == {InitCols, InitCols + 1}
Counts == 0..MaxCount

\* The dispatcher thread: the session loop around handle_event.
Next ==
    \/ \E text \in Texts(MaxLen) : SetData(text)
    \/ \E text \in AppendTexts(MaxLen), style \in AppendStyles :
          AppendData(text, style)
    \/ Exit
    \/ \E ok \in BOOLEAN : Cleanup(ok)
    \/ \E um \in Marks, ok \in BOOLEAN : UpdateUpperMark(um, ok)
    \/ RestorePrompt
    \/ \E m \in Messages : SendMessage(m)
    \/ \E type \in {"Number", "Ignore"} : Ignored(type)
    \/ NextMatch
    \/ PrevMatch
    \/ \E n \in Counts : MoveToNextMatch(n)
    \/ \E n \in Counts : MoveToPrevMatch(n)
    \/ \E m \in SearchModes : Search(m)
    \/ SearchLock1
    \/ SearchDeactivate
    \/ \E ok \in BOOLEAN, s \in SearchStrings : FetchInput(ok, s)
    \/ SearchLock2
    \/ SearchActivate
    \/ \E ok \in BOOLEAN : SearchFinish(ok)

Spec == Init /\ [][Next]_vars

\* The dispatcher keeping formatted_lines: every event that writes lines,
\* cols, line_numbers, search_term or formatted_lines. The direction of a
\* search has no part in the formatting: the searches here are forward.
FormatNext ==
    \/ \E text \in Texts(MaxLen) : SetData(text)
    \/ \E text \in AppendTexts(MaxContent), style \in AppendStyles :
          AppendData(text, style)
    \/ \E c \in Widths : UpdateTermArea(c, InitRows)
    \/ \E l \in LineNumbers : UpdateLineNumber(l)
    \/ \E ln \in LineNumbers : SetLineNumbers(ln)
    \/ Search("Forward")
    \/ SearchLock1
    \/ SearchDeactivate
    \/ \E ok \in BOOLEAN, s \in SearchStrings : FetchInput(ok, s)
    \/ SearchLock2
    \/ SearchActivate
    \/ \E ok \in BOOLEAN : SearchFinish(ok)

FormatSpec == Init /\ [][FormatNext]_vars

\* The dispatcher moving between matches: content long enough for three
\* rows, searches, and every event that moves the view or the match cursor.
MatchNext ==
    \/ \E text \in Texts(MaxLen) : SetData(text)
    \/ \E text \in AppendTexts(MaxContent), style \in AppendStyles :
          AppendData(text, style)
    \/ \E um \in Marks, ok \in BOOLEAN : UpdateUpperMark(um, ok)
    \/ NextMatch
    \/ PrevMatch
    \/ \E n \in Counts : MoveToNextMatch(n)
    \/ \E n \in Counts : MoveToPrevMatch(n)
    \/ \E m \in SearchModes : Search(m)
    \/ SearchLock1
    \/ SearchDeactivate
    \/ \E ok \in BOOLEAN, s \in SearchStrings : FetchInput(ok, s)
    \/ SearchLock2
    \/ SearchActivate
    \/ \E ok \in BOOLEAN : SearchFinish(ok)

MatchSpec == Init /\ [][MatchNext]_vars

\* The host application: the commands it sends through the pager handle, and
\* the user dismissing a message.
HostNext ==
    \/ \E text \in Texts(MaxLen) : SetData(text)
    \/ \E prompt \in Prompts : SetPrompt(prompt)
    \/ \E m \in Messages : SendMessage(m)
    \/ RestorePrompt
    \/ \E ln \in LineNumbers : SetLineNumbers(ln)
    \/ \E es \in ExitStrategies : SetExitStrategy(es)
    \/ \E val \in BOOLEAN : SetRunNoOverflow(val)
    \/ \E clf \in Classifiers : SetInputClassifier(clf)
    \/ \E cb \in ExitCallbacks : AddExitCallback(cb)

HostSpec == Init /\ [][HostNext]_vars

\* The two threads of the terminal hand-off: the dispatcher handling Search
\* and Exit events, and the input-polling thread.
SyncNext ==
    \/ \E m \in SearchModes : ReceiveSearch(m)
    \/ SearchLock1
    \/ SearchDeactivate
    \/ \E ok \in BOOLEAN, s \in SearchStrings : FetchInput(ok, s)
    \/ SearchLock2
    \/ SearchActivate
    \/ \E ok \in BOOLEAN : SearchFinish(ok)
    \/ Exit
    \/ \E ok \in BOOLEAN : Cleanup(ok)
    \/ PollerLock
    \/ PollerCheck
    \/ \E send \in BOOLEAN : PollerPoll(send)

SyncSpec == Init /\ [][SyncNext]_vars

\* ------------------------------------------------- the keybinding registry
\* crossterm::event::Event: Key(KeyEvent), Mouse(MouseEvent), Resize(u16, u16).
\* One record shape for the three; a field an input does not have is blank.
KeyEv(code, modifiers) ==
    [type |-> "Key", code |-> code, kind |-> "-", modifiers |-> modifiers,
     column |-> 0, row |-> 0]
MouseEv(kind, modifiers, column, row) ==
    [type |-> "Mouse", code |-> "-", kind |-> kind, modifiers |-> modifiers,
     column |-> column, row |-> row]
ResizeEv(columns, rows) ==
    [type |-> "Resize", code |-> "-", kind |-> "-", modifiers |-> "-",
     column |-> columns, row |-> rows]

KeyCodes == {"a", "b"}
MouseKinds == {"ScrollUp", "ScrollDown"}
Modifiers == {"NONE", "SHIFT"}
Coords == 0..MaxCoord
KeyEvents == {KeyEv(c, "NONE") : c \in KeyCodes}
\* The positions of the inputs looked up: the left column and the diagonal.
Points == {pt \in Coords \X Coords : pt[1] = 0 \/ pt[1] = pt[2]}
MouseEvents ==
    {MouseEv(k, m, pt[1], pt[2]) : k \in MouseKinds, m \in Modifiers, pt \in Points}
\* A binding is written as text, which names a kind and modifiers and no
\* position: the mouse input it stands for has column 0 and row 0.
BoundMouseEvents == {MouseEv(k, m, 0, 0) : k \in MouseKinds, m \in Modifiers}
ResizeEvents == {ResizeEv(pt[1], pt[2]) : pt \in Points}
RawEvents == KeyEvents \cup MouseEvents \cup ResizeEvents
Callbacks == {"cb1", "cb2"}

\* enum EventWrapper { ExactMatchEvent(Event), WildEvent }
ExactMatchEvent(e) == [tag |-> "ExactMatchEvent", e |-> e]
WildEvent == [tag |-> "WildEvent", e |-> NoEv]

\* impl PartialEq for EventWrapper: how a call of eq ends. "true" and
\* "false" are its results; "unreachable" is the panic of unreachable!();
\* "recursion" is the call self == other, which is eq(self, other) again and
\* never returns.
Bool(b) == IF b THEN "true" ELSE "false"

eqComparingCoordinates(self, other) ==
    IF self.tag = "ExactMatchEvent" /\ self.e.type = "Mouse"
    THEN IF other.tag = "ExactMatchEvent" /\ other.e.type = "Mouse"
         THEN Bool(self.e = other.e)
         ELSE "unreachable"
    ELSE "recursion"
eq(self, other) ==
    IF self.tag = "ExactMatchEvent" /\ self.e.type = "Mouse"
    THEN IF other.tag = "ExactMatchEvent" /\ other.e.type = "Mouse"
         THEN Bool(self.e.kind = other.e.kind
                   /\ self.e.modifiers = other.e.modifiers)
         ELSE "unreachable"
    ELSE "recursion"

\* impl Hash for EventWrapper: what is fed to the hasher. The tag always; of
\* a mouse input the kind and the modifiers; of WildEvent and of a resize
\* input nothing more; of any other input the whole Event.
hash(w) ==
    IF w.tag = "ExactMatchEvent" /\ w.e.type = "Mouse"
    THEN [tag |-> w.tag,
          e |-> [NoEv EXCEPT !.kind = w.e.kind, !.modifiers = w.e.modifiers]]
    ELSE IF w.tag = "WildEvent" \/ w.e.type = "Resize"
    THEN [tag |-> w.tag, e |-> NoEv]
    ELSE [tag |-> w.tag, e |-> w.e]

\* HashMap::get / the search of HashMap::insert: the table calls eq(k, x)
\* on the entries x it probes, until one call returns true. It probes every
\* entry whose hash equals that of k, and any other entry whose hash, under
\* the RandomState of the build, happens to share the bits the table
\* compares. The result: the entry found, "absent", or the way an eq call
\* ended without returning.
NoEntry == [k |-> WildEvent, v |-> "-"]
Outcome(kind, entry) == [kind |-> kind, entry |-> entry]

find(m, k) ==
    LET same == {x \in m : hash(x.k) = hash(k)}
    IN {Outcome("found", x) : x \in {y \in same : eq(k, y.k) = "true"}}
       \cup {Outcome(eq(k, x.k), NoEntry) :
                x \in {y \in m : eq(k, y.k) \in {"unreachable", "recursion"}}}
       \cup (IF \A x \in same : eq(k, x.k) = "false"
             THEN {Outcome("absent", NoEntry)} ELSE {})

\* HashMap::insert(k, v): the new map, and how the call ended.
Inserted(m, kind) == [map |-> m, kind |-> kind]

insert(m, k, v) ==
    {IF o.kind = "found"
        THEN Inserted((m \ {o.entry}) \cup {[k |-> o.entry.k, v |-> v]}, "Ok")
     ELSE IF o.kind = "absent"
        THEN Inserted(m \cup {[k |-> k, v |-> v]}, "Ok")
     ELSE Inserted(m, o.kind) : o \in find(m, k)}

\* for k in keys { self.0.insert(k.into(), v.clone()) }
RECURSIVE insert_each(_, _, _)
insert_each(m, keys, v) ==
    IF keys = <<>> THEN {Inserted(m, "Ok")}
    ELSE UNION {IF r.kind = "Ok" THEN insert_each(r.map, Tail(keys), v) ELSE {r} :
                   r \in insert(m, ExactMatchEvent(Head(keys)), v)}

\* HashedEventRegister::get: the exact entry, else the wildcard entry.

get(m, k) ==
    UNION {IF o.kind = "found" THEN {Result("Some", o.entry.v)}
           ELSE IF o.kind = "absent"
           THEN {IF w.kind = "found" THEN Result("Some", w.entry.v)
                 ELSE IF w.kind = "absent" THEN Result("None", "-")
                 ELSE Result(w.kind, "-") : w \in find(m, WildEvent)}
           ELSE {Result(o.kind, "-")} : o \in find(m, ExactMatchEvent(k))}

\* A panic or a stack overflow ends the thread that uses the registry.
RegistryAlive == reg_ret.kind \notin {"unreachable", "recursion"}

\* The registry is built with at most MaxEntries bindings.
MaxEntries == 2

Insertion(call, results) ==
    /\ \E r \in results :
          /\ Cardinality(r.map) <= MaxEntries
          /\ map' = r.map
          /\ reg_ret' = Result(r.kind, "-")
    /\ reg_call' = <<call, NoEv>>
    /\ UNCHANGED <<disp_vars, lock, ppc, sent, input>>

insert_wild_event_matcher(v) ==
    /\ RegistryAlive
    /\ Insertion("insert_wild_event_matcher", insert(map, WildEvent, v))

add_resize_event(v) ==
    /\ RegistryAlive
    /\ Insertion("add_resize_event",
                 insert(map, ExactMatchEvent(ResizeEv(0, 0)), v))

add_key_event(k, v) ==
    /\ RegistryAlive
    /\ Insertion("add_key_event", insert(map, ExactMatchEvent(k), v))

add_key_events(keys, v) ==
    /\ RegistryAlive
    /\ Insertion("add_key_events", insert_each(map, keys, v))

add_mouse_event(k, v) ==
    /\ RegistryAlive
    /\ Insertion("add_mouse_event", insert(map, ExactMatchEvent(k), v))

add_mouse_events(keys, v) ==
    /\ RegistryAlive
    /\ Insertion("add_mouse_events", insert_each(map, keys, v))

\* InputClassifier::classify_input: self.get(&ev).map(|c| c(ev, ps)); the
\* result names the callback that produced the InputEvent.
classify_input(e) ==
    /\ RegistryAlive
    /\ reg_call' = <<"classify_input", e>>
    /\ reg_ret' \in get(map, e)
    /\ UNCHANGED <<map, disp_vars, lock, ppc, sent, input>>

\* Every sequence of two distinct elements of S.
Pairs(S) == {pr \in S \X S : pr[1] # pr[2]}

RegNext ==
    \/ \E v \in Callbacks : insert_wild_event_matcher(v)
    \/ \E v \in Callbacks : add_resize_event(v)
    \/ \E k \in KeyEvents, v \in Callbacks : add_key_event(k, v)
    \/ \E keys \in Pairs(KeyEvents), v \in Callbacks : add_key_events(keys, v)
    \/ \E k \in BoundMouseEvents, v \in Callbacks : add_mouse_event(k, v)
    \/ \E keys \in Pairs(BoundMouseEvents), v \in Callbacks :
          add_mouse_events(keys, v)
    \/ \E e \in RawEvents : classify_input(e)

RegSpec == Init /\ [][RegNext]_vars

\* ------------------------------- the registry of input/mod.rs (the older one)
\* enum BindType { Key, Mouse, Resize }
BindType == {"Key", "Mouse", "Resize"}

\* #[derive(PartialEq, Eq)] enum EventWrapper: the same variant and an equal
\* Event, every field compared.
derive_eq(self, other) == Bool(self = other)

\* impl Hash for EventWrapper (input/mod.rs): the tag always; of a mouse
\* input the kind and the modifiers; of any other input the whole Event; of
\* WildEvent nothing more.
mod_hash(w) ==
    IF w.tag = "ExactMatchEvent" /\ w.e.type = "Mouse"
    THEN [tag |-> w.tag,
          e |-> [NoEv EXCEPT !.kind = w.e.kind, !.modifiers = w.e.modifiers]]
    ELSE IF w.tag = "WildEvent"
    THEN [tag |-> w.tag, e |-> NoEv]
    ELSE [tag |-> w.tag, e |-> w.e]

\* HashMap::insert and HashMap::get under the derived equality: an entry is
\* found when its key has the hash of k and equals k.
mod_find(m, k) ==
    {x \in m : mod_hash(x.k) = mod_hash(k) /\ derive_eq(k, x.k) = "true"}
put(m, k, v) == (m \ mod_find(m, k)) \cup {[k |-> k, v |-> v]}

\* HashedEventRegister::insert_rc: a Key binding is inserted, a binding of
\* any other type matches the arm _ => {}.
insert_rc(m, btype, k, v) ==
    IF btype = "Key" THEN put(m, ExactMatchEvent(k), v) ELSE m

\* for k in keys { self.insert_rc(btype, *k, v.clone()) }
RECURSIVE insert_all(_, _, _, _)
insert_all(m, btype, keys, v) ==
    IF keys = <<>> THEN m
    ELSE insert_all(insert_rc(m, btype, Head(keys), v), btype, Tail(keys), v)

\* HashedEventRegister::get: the exact entry, else the wildcard entry.
mod_get(m, k) ==
    IF mod_find(m, ExactMatchEvent(k)) # {}
    THEN {Result("Some", x.v) : x \in mod_find(m, ExactMatchEvent(k))}
    ELSE IF mod_find(m, WildEvent) # {}
    THEN {Result("Some", x.v) : x \in mod_find(m, WildEvent)}
    ELSE {Result("None", "-")}

\* A call that builds the registry returns (); reg_call keeps its name and
\* the binding type it was given.
Bound(call, btype, m) ==
    /\ Cardinality(m) <= MaxEntries
    /\ map' = m
    /\ reg_call' = <<call, NoEv, btype>>
    /\ reg_ret' = Result("Ok", "-")
    /\ UNCHANGED <<disp_vars, lock, ppc, sent, input>>

mod_insert(btype, k, v) == Bound("insert", btype, insert_rc(map, btype, k, v))

mod_insert_rc(btype, k, v) ==
    Bound("insert_rc", btype, insert_rc(map, btype, k, v))

mod_insert_all(btype, keys, v) ==
    Bound("insert_all", btype, insert_all(map, btype, keys, v))

mod_insert_wild_event_matcher(v) ==
    Bound("insert_wild_event_matcher", "-", put(map, WildEvent, v))

\* InputClassifier::classify_input: self.get(&ev).map(|c| c(ev, ps))
mod_classify_input(e) ==
    /\ reg_call' = <<"classify_input", e, "-">>
    /\ reg_ret' \in mod_get(map, e)
    /\ UNCHANGED <<map, disp_vars, lock, ppc, sent, input>>

\* The texts of the bindings: a Key binding names a key; a Mouse or a Resize
\* binding is written in the same place.
ModRegNext ==
    \/ \E b \in BindType, k \in KeyEvents, v \in Callbacks : mod_insert(b, k, v)
    \/ \E b \in BindType, k \in KeyEvents, v \in Callbacks :
          mod_insert_rc(b, k, v)
    \/ \E b \in BindType, keys \in Pairs(KeyEvents), v \in Callbacks :
          mod_insert_all(b, keys, v)
    \/ \E v \in Callbacks : mod_insert_wild_event_matcher(v)
    \/ \E e \in RawEvents : mod_classify_input(e)

ModRegSpec == Init /\ [][ModRegNext]_vars

\* ------------------------------------------------ the keys of both registries
\* self == other and the two hashes, of input/event_wrapper.rs and of
\* input/mod.rs: reg_call keeps the keys, reg_ret how the comparison ended
\* and whether the hashes are equal.
Compared(call, self, other, equal, hashes) ==
    /\ reg_call' = <<call, self, other>>
    /\ reg_ret' = Result(equal, Bool(hashes))
    /\ UNCHANGED <<map, disp_vars, lock, ppc, sent, input>>

compare(self, other) ==
    Compared("eq", self, other, eq(self, other), hash(self) = hash(other))

mod_compare(self, other) ==
    Compared("derive_eq", self, other, derive_eq(self, other),
             mod_hash(self) = mod_hash(other))

Keys == {ExactMatchEvent(e) : e \in RawEvents} \cup {WildEvent}

KeyNext ==
    \/ \E self \in Keys, other \in Keys : compare(self, other)
    \/ \E self \in Keys, other \in Keys : mod_compare(self, other)

KeySpec == Init /\ [][KeyNext]_vars

\* --------------------------------------------- the default input classifier
\* usize::MAX
UsizeMax == 2 ^ UsizeBits - 1
\* usize::saturating_add
SatAdd(a, b) == Min(a + b, UsizeMax)
\* usize - usize: a difference below 0 panics in a build with overflow checks
\* (the debug profile) and wraps around in one without (the release profile).
\* None stands for the panic.
Sub(a, b, overflow_checks) ==
    IF a >= b THEN Some(a - b)
    ELSE IF overflow_checks THEN None
    ELSE Some(a + UsizeMax + 1 - b)
\* What is left of a classification that panicked.
Panic == <<"panic", "attempt to subtract with overflow">>
\* Option::unwrap_or
UnwrapOrZero(o, d) == IF IsSome(o) THEN Unwrap(o) ELSE 0
UnwrapOr(o, d) == IF IsSome(o) THEN Unwrap(o) ELSE d

\* The digits the user types into the prefix-count buffer.
Digits == {"0", "1", "2"}
DigitValue(c) == CHOOSE n \in 0..9 : ToString(n) = c

\* The number a string of digits denotes.
RECURSIVE Value(_)
Value(s) ==
    IF s = <<>> THEN 0
    ELSE 10 * Value(SubSeq(s, 1, Len(s) - 1)) + DigitValue(s[Len(s)])

\* str::parse::<usize>(): an error for the empty string and for a number
\* that does not fit usize.
parse(s) ==
    IF s = <<>> \/ Value(s) > UsizeMax THEN None ELSE Some(Value(s))

\* enum InputEvent, in the shape of the events the dispatcher receives.
InputEvent(type, arg) == [type |-> type, arg |-> arg]

\* impl Not for LineNumbers
Not(l) == IF l = "Enabled" THEN "Disabled" ELSE "Enabled"

\* The position G jumps to: the prefix count less one, and usize::MAX when
\* that is 0.
GPositionKeepingZero(ps) == SatSub(UnwrapOr(parse(ps.prefix_num), UsizeMax), 1)
GPosition(ps) ==
    LET position == SatSub(UnwrapOr(parse(ps.prefix_num), UsizeMax), 1)
    IN IF position = 0 THEN UsizeMax ELSE position

\* DefaultInputClassifier::classify_input(ev, ps): the first arm of the match
\* that the raw input fits.
DefaultInputClassifier(e, ps, overflow_checks) ==
    LET key == e.type = "Key"
        NONE == key /\ e.modifiers = "NONE"
        SHIFT == key /\ e.modifiers = "SHIFT"
        CONTROL == key /\ e.modifiers = "CONTROL"
        position == UnwrapOr(parse(ps.prefix_num), 1)
        half_screen == ps.rows \div 2
        rows_less_one == Sub(ps.rows, 1, overflow_checks)
        UpdateUpperMark_(um) == Some(InputEvent("UpdateUpperMark", <<um>>))
    IN IF NONE /\ e.code \in {"Up", "k"}
         THEN UpdateUpperMark_(SatSub(ps.upper_mark, position))
       ELSE IF NONE /\ e.code \in {"Down", "j"}
         THEN UpdateUpperMark_(SatAdd(ps.upper_mark, position))
       ELSE IF NONE /\ e.code \in Digits
         THEN Some(InputEvent("Number", <<e.code>>))
       ELSE IF NONE /\ e.code = "Enter"
         THEN IF IsSome(ps.message)
              THEN Some(InputEvent("RestorePrompt", <<>>))
              ELSE UpdateUpperMark_(SatAdd(ps.upper_mark, position))
       ELSE IF (CONTROL \/ NONE) /\ e.code = "u"
         THEN UpdateUpperMark_(SatSub(ps.upper_mark, half_screen))
       ELSE IF (CONTROL \/ NONE) /\ e.code = "d"
         THEN UpdateUpperMark_(SatAdd(ps.upper_mark, half_screen))
       ELSE IF e.type = "Mouse" /\ e.kind = "ScrollUp"
         THEN UpdateUpperMark_(SatSub(ps.upper_mark, 5))
       ELSE IF e.type = "Mouse" /\ e.kind = "ScrollDown"
         THEN UpdateUpperMark_(SatAdd(ps.upper_mark, 5))
       ELSE IF NONE /\ e.code = "g"
         THEN UpdateUpperMark_(0)
       ELSE IF (SHIFT /\ e.code \in {"g", "G"}) \/ (NONE /\ e.code = "G")
         THEN UpdateUpperMark_(GPosition(ps))
       ELSE IF NONE /\ e.code = "PageUp"
         THEN IF IsSome(rows_less_one)
              THEN UpdateUpperMark_(SatSub(ps.upper_mark, Unwrap(rows_less_one)))
              ELSE Panic
       ELSE IF NONE /\ e.code \in {"PageDown", " "}
         THEN IF IsSome(rows_less_one)
              THEN UpdateUpperMark_(SatAdd(ps.upper_mark, Unwrap(rows_less_one)))
              ELSE Panic
       ELSE IF e.type = "Resize"
         THEN Some(InputEvent("UpdateTermArea", <<e.column, e.row>>))
       ELSE IF CONTROL /\ e.code = "l"
         THEN Some(InputEvent("UpdateLineNumber", <<Not(ps.line_numbers)>>))
       ELSE IF (NONE /\ e.code = "q") \/ (CONTROL /\ e.code = "c")
         THEN Some(InputEvent("Exit", <<>>))
       ELSE IF NONE /\ e.code = "/"
         THEN Some(InputEvent("Search", <<"Forward">>))
       ELSE IF NONE /\ e.code = "?"
         THEN Some(InputEvent("Search", <<"Reverse">>))
       ELSE IF NONE /\ e.code = "n"
         THEN IF ps.search_mode = "Reverse"
              THEN Some(InputEvent("MoveToPrevMatch", <<position>>))
              ELSE Some(InputEvent("MoveToNextMatch", <<position>>))
       ELSE IF NONE /\ e.code = "p"
         THEN IF ps.search_mode = "Reverse"
              THEN Some(InputEvent("MoveToNextMatch", <<position>>))
              ELSE Some(InputEvent("MoveToPrevMatch", <<position>>))
       ELSE None

\* The heights the terminal is resized to.
ResizeRows == {0, InitRows}

\* The raw inputs the user produces.
DefaultKeyCodes ==
    {"Up", "Down", "k", "j", "Enter", "u", "d", "g", "G", "PageUp",
     "PageDown", " ", "l", "q", "c", "/", "?", "n", "p", "x"} \cup Digits
DefaultInputs ==
    {KeyEv(c, "NONE") : c \in DefaultKeyCodes}
    \cup {KeyEv(c, "SHIFT") : c \in {"g", "G", "x"}}
    \cup {KeyEv(c, "CONTROL") : c \in {"u", "d", "l", "c", "x"}}
    \cup {MouseEv(k, "NONE", 0, 0) : k \in MouseKinds}
    \cup {ResizeEv(InitCols, r) : r \in ResizeRows}

\* The input loop: a raw input is classified under the default policy; a
\* Number is appended to the prefix-count buffer, and the buffer is emptied
\* once any other input has been classified.  A classification that panics
\* ends the loop.
Classify(e, overflow_checks) ==
    /\ dpc = "idle"
    /\ SessionLoopRunning
    /\ input.event # Panic
    /\ LET event == DefaultInputClassifier(e, p, overflow_checks)
       IN /\ input' = [raw |-> e, prefix_num |-> p.prefix_num,
                       rows |-> p.rows, upper_mark |-> p.upper_mark,
                       event |-> event]
          /\ IF IsSome(event) /\ Unwrap(event).type = "Number"
             THEN /\ Len(p.prefix_num) < MaxDigits
                  /\ p' = [p EXCEPT !.prefix_num = Append(@, Unwrap(event).arg[1])]
             ELSE p' = [p EXCEPT !.prefix_num = <<>>]
    /\ UNCHANGED <<is_exitted, user_input_active, lock, dpc, ev, string, ret,
                   out, ppc, sent, exit_dispatched, before, reg_vars>>

\* The session loop hands the event the input loop produced to the
\* dispatcher, once.
Dispatching(type) ==
    /\ IsSome(input.event)
    /\ ev # Unwrap(input.event)
    /\ Unwrap(input.event).type = type
DispatchUpdateUpperMark(ok) ==
    /\ Dispatching("UpdateUpperMark")
    /\ UpdateUpperMark(Unwrap(input.event).arg[1], ok)
DispatchUpdateTermArea ==
    /\ Dispatching("UpdateTermArea")
    /\ UpdateTermArea(Unwrap(input.event).arg[1], Unwrap(input.event).arg[2])
DispatchRestorePrompt ==
    /\ Dispatching("RestorePrompt")
    /\ RestorePrompt
DispatchMoveToNextMatch ==
    /\ Dispatching("MoveToNextMatch")
    /\ MoveToNextMatch(Unwrap(input.event).arg[1])
DispatchMoveToPrevMatch ==
    /\ Dispatching("MoveToPrevMatch")
    /\ MoveToPrevMatch(Unwrap(input.event).arg[1])

\* Every raw input under the default policy, with resizes and messages.
ClassifyNext ==
    \/ \E e \in DefaultInputs, overflow_checks \in BOOLEAN :
          Classify(e, overflow_checks)
    \/ DispatchUpdateTermArea
    \/ DispatchRestorePrompt
    \/ \E m \in Messages : SendMessage(m)

ClassifySpec == Init /\ [][ClassifyNext]_vars

\* The inputs that use the prefix count, and the digits that make it up.
Consumers ==
    {KeyEv(c, "NONE") : c \in {"Up", "Down", "k", "j", "Enter", "G", "n", "p"}}
CountInputs == Consumers \cup {KeyEv(c, "NONE") : c \in Digits}

\* Counts typed and used: digits, the inputs that consume them, and the
\* dispatch of what they are classified as.
CountNext ==
    \/ \E e \in CountInputs, overflow_checks \in BOOLEAN :
          Classify(e, overflow_checks)
    \/ \E ok \in BOOLEAN : DispatchUpdateUpperMark(ok)
    \/ DispatchMoveToNextMatch
    \/ DispatchMoveToPrevMatch

CountSpec == Init /\ [][CountNext]_vars

\* The scheduling of the two threads: a thread that can take a step takes
\* one, the lock is handed to each thread that keeps asking for it, and a
\* search-line read ends. Nothing makes the user start a search or quit.
FairSyncSpec ==
    /\ SyncSpec
    /\ SF_vars(SearchLock1)
    /\ WF_vars(SearchDeactivate)
    /\ WF_vars(\E ok \in BOOLEAN, s \in SearchStrings : FetchInput(ok, s))
    /\ SF_vars(SearchLock2)
    /\ WF_vars(SearchActivate)
    /\ WF_vars(\E ok \in BOOLEAN : SearchFinish(ok))
    /\ WF_vars(\E ok \in BOOLEAN : Cleanup(ok))
    /\ SF_vars(PollerLock)
    /\ WF_vars(PollerCheck)
    /\ WF_vars(\E send \in BOOLEAN : PollerPoll(send))

\* ------------------------------------------------------------------ claims
\* C1: at most one of the polling thread reading raw terminal input and the
\* dispatcher reading the search line is active at any instant.
C1_MutualExclusion == ~(ppc = "polling" /\ dpc = "fetch_input")

\* C2: once a Search event has been handled, whether the search line was
\* read or the read failed, user_input_active is true again.
C2_FlagRestored ==
    (dpc = "idle" /\ ev.type = "Search") => user_input_active

\* C3: a polling thread that waits on the condition, with no search-line
\* read pending, polls again.
C3_PollerResumes ==
    (ppc = "waiting" /\ dpc \notin {"lock1", "deactivate", "fetch_input"})
        ~> (ppc = "polling")

\* C4: in a registry of mouse bindings, a mouse input with the kind and the
\* modifiers of a binding resolves to the callback of that binding, whatever
\* its column and row.
IsMouseBinding(x) == x.k.tag = "ExactMatchEvent" /\ x.k.e.type = "Mouse"
SameMouseKey(x, e) ==
    /\ IsMouseBinding(x)
    /\ e.type = "Mouse"
    /\ e.kind = x.k.e.kind
    /\ e.modifiers = x.k.e.modifiers
Classified == reg_call[1] = "classify_input"

C4_CoordinateInvariance ==
    \A x \in map :
        (/\ Classified
         /\ \A y \in map : IsMouseBinding(y)
         /\ SameMouseKey(x, reg_call[2]))
        => reg_ret = Result("Some", x.v)

C4_Witness ==
    \E x \in map :
        /\ map = {x}
        /\ Classified
        /\ SameMouseKey(x, reg_call[2])
        /\ reg_call[2].column # x.k.e.column
        /\ reg_call[2].row # x.k.e.row
        /\ reg_ret = Result("Some", x.v)

\* C5: with a wildcard callback and a callback for one key, the key resolves
\* to its callback and every other input to the wildcard callback; with
\* neither an exact nor a wildcard entry the input is not classified.
Binds(x, e) ==
    \/ x.k = ExactMatchEvent(e)
    \/ SameMouseKey(x, e)
    \/ (e.type = "Resize" /\ x.k.tag = "ExactMatchEvent" /\ x.k.e.type = "Resize")

C5_ExactThenWildcard ==
    Classified =>
        LET e == reg_call[2]
            exact == {x \in map : Binds(x, e)}
            wild == {x \in map : x.k = WildEvent}
        IN /\ e.type = "Key" => \A x \in exact : reg_ret = Result("Some", x.v)
           /\ exact = {} => \A x \in wild : reg_ret = Result("Some", x.v)
           /\ (exact = {} /\ wild = {}) => reg_ret = Result("None", "-")

\* C6: a lookup ends with a callback or with no classification, whatever the
\* registry holds and whatever the input.
C6_LookupTotal == Classified => reg_ret.kind \in {"Some", "None"}

\* C7: with a callback registered by add_resize_event, every resize input
\* resolves to that callback.
C7_ResizeCollapsed ==
    \A x \in map :
        (/\ Classified
         /\ reg_call[2].type = "Resize"
         /\ x.k = ExactMatchEvent(ResizeEv(0, 0)))
        => reg_ret = Result("Some", x.v)

C9_ExitFlagBeforeCleanup ==
    /\ dpc = "cleanup" => is_exitted
    /\ (dpc = "idle" /\ ev.type = "Exit") =>
          /\ is_exitted
          /\ out # "cleanup" => ret = "Err"

C9_Witness ==
    /\ dpc = "idle"
    /\ ev.type = "Exit"
    /\ out # "cleanup"
    /\ ret = "Err"
    /\ is_exitted

\* C10: a Search event whose text is not empty and does not compile leaves
\* search_term as it was, sets a message that is not empty, and returns Ok.
C10_InvalidPattern ==
    [][(dpc = "notify" /\ string # <<>> /\ ~Compiles(string)) =>
          /\ p'.search_term = p.search_term
          /\ IsSome(p'.message)
          /\ Unwrap(p'.message) # ""
          /\ ret' = "Ok"
          /\ dpc' = "idle"]_vars

C10_Witness ==
    /\ dpc = "idle"
    /\ ev.type = "Search"
    /\ string = <<"[">>
    /\ ret = "Ok"
    /\ p.message = Some(InvalidRegexMessage)
    /\ p.search_term = Some(<<"a">>)

\* The step that ends a Search whose text compiles and matches a row.
SearchMatches ==
    /\ dpc = "notify"
    /\ string # <<>>
    /\ Compiles(string)
    /\ p'.search_idx # {}
\* The least element of a non-empty set of indices.
First(S) == CHOOSE i \in S : \A j \in S : i <= j
\* The position of the index i in the ordered set S.
Position(S, i) == Cardinality({j \in S : j < i})

C12_CursorInRange ==
    p.search_idx # {} => p.search_mark < Cardinality(p.search_idx)

\* C13: a PrevMatch or MoveToPrevMatch(n) dispatched when search_idx is empty
\* or no pattern is set returns Ok and leaves every field of the pager state
\* unchanged.
C13_PrevMatchNoOp ==
    [][(/\ dpc = "idle"
        /\ dpc' = "idle"
        /\ ev'.type \in {"PrevMatch", "MoveToPrevMatch"}
        /\ (p.search_idx = {} \/ ~IsSome(p.search_term)))
       => (p' = p /\ ret' = "Ok")]_vars

\* A MoveToPrevMatch has been handled with a pattern set, no match left and
\* the cursor still on the second match of the earlier content.
C13_Witness ==
    /\ dpc = "idle"
    /\ ev.type = "MoveToPrevMatch"
    /\ ev.arg # <<0>>
    /\ ret = "Ok"
    /\ IsSome(p.search_term)
    /\ p.search_idx = {}
    /\ p.search_mark > 0
    /\ p.upper_mark > 0

\* C14: formatted_lines is the full reformat of lines at cols with
\* line_numbers, in every state; after SetData of a text of one line that
\* fits the width, with line numbers off, it is the one row equal to the text.
C14_FormattedConsistent ==
    /\ p.formatted_lines = Reformat(p.lines, p.cols, p.line_numbers)
    /\ (/\ dpc = "idle"
        /\ ev.type = "SetData"
        /\ ev.arg # <<>>
        /\ Len(ev.arg) <= p.cols
        /\ \A i \in 1..Len(ev.arg) : ev.arg[i] # NL
        /\ p.line_numbers = "Disabled")
       => p.formatted_lines = <<ev.arg>>

\* An append has extended an unterminated line that wraps, under line
\* numbers, after a terminated line.
C14_Witness ==
    /\ dpc = "idle"
    /\ ev.type = "AppendData"
    /\ p.line_numbers = "Enabled"
    /\ p.lines = <<NL, "a", "a">>
    /\ ev.arg = <<"a">>
    /\ p.cols = 1
    /\ p.formatted_lines = <<<<"1">>, <<"2", "a">>, <<"2", "a">>>>

\* C15: from empty content, AppendData of a text X that ends with the line
\* terminator followed by AppendData of a text Y that does not yields the
\* formatted_lines that SetData of X followed by Y yields at the same width
\* and line-number mode.
C15_AppendAgreesWithSetData ==
    [][(/\ dpc = "idle"
        /\ ev.type = "AppendData"
        /\ p.lines = ev.arg
        /\ ~Unterminated(ev.arg)
        /\ dpc' = "idle"
        /\ ev'.type = "AppendData"
        /\ Unterminated(ev'.arg)
        /\ p'.lines = p.lines \o ev'.arg)
       => p'.formatted_lines
             = SetDataEffect(p, ev.arg \o ev'.arg).formatted_lines]_vars

\* "a\n" and then "a" have been appended to empty content, on the terminal
\* the pager state was constructed on.
C15_Witness ==
    /\ dpc = "idle"
    /\ ev = [type |-> "AppendData", arg |-> <<"a">>]
    /\ p.lines = <<"a", NL, "a">>
    /\ p.formatted_lines = <<<<"a">>, <<"a">>>>
    /\ p.cols = InitCols
    /\ p.line_numbers = "Disabled"

\* C16: SendMessage(M) sets message to Some(M); a RestorePrompt dispatched
\* after it sets message to None and leaves lines and formatted_lines
\* unchanged.
C16_MessageThenRestore ==
    [][/\ (dpc' = "idle" /\ ev'.type = "SendMessage")
          => p'.message = Some(ev'.arg[1])
       /\ (/\ dpc = "idle"
           /\ ev.type = "SendMessage"
           /\ dpc' = "idle"
           /\ ev'.type = "RestorePrompt")
          => /\ p'.message = None
             /\ p'.lines = p.lines
             /\ p'.formatted_lines = p.formatted_lines]_vars

\* A RestorePrompt has been handled with content present: the message is
\* gone and the prompt is displayed again.
C16_Witness ==
    /\ dpc = "idle"
    /\ ev.type = "RestorePrompt"
    /\ p.message = None
    /\ p.displayed_prompt = p.prompt
    /\ p.formatted_lines # <<>>

\* C17: after SetPrompt(S) the prompt field is S, whatever it was before.
C17_PromptSet ==
    (dpc = "idle" /\ ev.type = "SetPrompt") => p.prompt = ev.arg[1]

C17_Witness ==
    /\ dpc = "idle"
    /\ ev = [type |-> "SetPrompt", arg |-> <<"less">>]
    /\ p.prompt = "less"
    /\ IsSome(p.message)

\* The field each of the four configuration commands assigns.
ConfigField ==
    [SetExitStrategy |-> "exit_strategy", SetRunNoOverflow |-> "run_no_overflow",
     SetInputClassifier |-> "input_classifier", AddExitCallback |-> "exit_callbacks"]

\* C18: SetExitStrategy, SetRunNoOverflow and SetInputClassifier assign their
\* own field, AddExitCallback appends one entry at the end of exit_callbacks,
\* and each leaves every other field of the pager state unchanged.
C18_ConfigFrame ==
    [][(dpc = "idle" /\ dpc' = "idle" /\ ev'.type \in DOMAIN ConfigField)
       => /\ \A f \in DOMAIN p \ {ConfigField[ev'.type]} : p'[f] = p[f]
          /\ ev'.type = "SetExitStrategy" => p'.exit_strategy = ev'.arg[1]
          /\ ev'.type = "SetRunNoOverflow" => p'.run_no_overflow = ev'.arg[1]
          /\ ev'.type = "SetInputClassifier"
                => p'.input_classifier = ev'.arg[1]
          /\ ev'.type = "AddExitCallback"
                => /\ Len(p'.exit_callbacks) = Len(p.exit_callbacks) + 1
                   /\ SubSeq(p'.exit_callbacks, 1, Len(p.exit_callbacks))
                         = p.exit_callbacks
                   /\ p'.exit_callbacks[Len(p'.exit_callbacks)] = ev'.arg[1]]_vars

\* A second exit callback has been added after the first, with content, a
\* message and another prompt in place.
C18_Witness ==
    /\ dpc = "idle"
    /\ ev = [type |-> "AddExitCallback", arg |-> <<"g">>]
    /\ p.exit_callbacks = <<"f", "g">>
    /\ p.formatted_lines # <<>>
    /\ IsSome(p.message)
    /\ p.prompt = "less"

\* C20: a Search whose text does not compile leaves every field of the pager
\* state other than message and the displayed prompt as the event found it.
C20_InvalidPatternFrame ==
    [][(dpc = "notify" /\ string # <<>> /\ ~Compiles(string))
       => \A f \in DOMAIN p \ {"message", "displayed_prompt"} :
             p'[f] = before[f]]_vars

\* The raw inputs of G: G, Shift+G and Shift+g.
GInputs == {KeyEv("G", "NONE"), KeyEv("G", "SHIFT"), KeyEv("g", "SHIFT")}

\* C19: under the default policy G with a pending prefix count n >= 1 gives
\* UpdateUpperMark(n - 1), and with no prefix or the prefix 0 gives
\* UpdateUpperMark of the largest usize.
C19_GJump ==
    input.raw \in GInputs =>
        LET n == parse(input.prefix_num)
        IN /\ (IsSome(n) /\ Unwrap(n) >= 1)
              => input.event
                   = Some(InputEvent("UpdateUpperMark", <<Unwrap(n) - 1>>))
           /\ (input.prefix_num = <<>> \/ n = Some(0))
              => input.event
                   = Some(InputEvent("UpdateUpperMark", <<UsizeMax>>))

\* C21: with a pattern set, MoveToNextMatch(n) puts the match cursor on the
\* n-th match after the view (the last match when there are fewer), and
\* MoveToPrevMatch(n) moves it n matches back, stopping at 0, for n >= 1; a
\* count of 2 so moves one match further than a count of 1.
C21_CountMoves ==
    [][(/\ dpc = "idle"
        /\ dpc' = "idle"
        /\ ev'.type \in {"MoveToNextMatch", "MoveToPrevMatch"}
        /\ ev'.arg[1] >= 1
        /\ IsSome(p.search_term)
        /\ p.search_idx # {})
       => LET n == ev'.arg[1]
              last == Cardinality(p.search_idx) - 1
              after == {i \in p.search_idx : i > p.upper_mark}
          IN IF ev'.type = "MoveToNextMatch"
             THEN after # {}
                  => p'.search_mark
                       = Min(Position(p.search_idx, First(after)) + n - 1, last)
             ELSE p'.search_mark = SatSub(p.search_mark, n)]_vars

\* C25: an UpdateUpperMark whose draw fails returns the error and leaves the
\* pager state, the committed mark included, as it was; one whose draw
\* succeeds commits the mark the renderer settled on.
C25_CommitAfterDraw ==
    [][(dpc = "idle" /\ dpc' = "idle" /\ ev'.type = "UpdateUpperMark")
       => IF ret' = "Err"
          THEN p' = p
          ELSE /\ ret' = "Ok"
               /\ p'.upper_mark = ClampMark(p, ev'.arg[1])]_vars

\* A draw failed for a mark other than the committed one, which stayed.
C25_Witness ==
    /\ dpc = "idle"
    /\ ev.type = "UpdateUpperMark"
    /\ ret = "Err"
    /\ ClampMark(p, ev.arg[1]) # p.upper_mark

PageInputs == {KeyEv(c, "NONE") : c \in {"PageUp", "PageDown", " "}}

\* C26: with a terminal height of 0, PageUp, PageDown and Space are
\* classified as UpdateUpperMark of the mark one page up or down, with the
\* page length rows - 1 stopping at 0: no panic and no wrapped difference.
C26_PageWithoutRows ==
    (input.raw \in PageInputs /\ input.rows = 0)
    => LET page == SatSub(input.rows, 1)
           um == IF input.raw.code = "PageUp"
                 THEN SatSub(input.upper_mark, page)
                 ELSE SatAdd(input.upper_mark, page)
       IN input.event = Some(InputEvent("UpdateUpperMark", <<um>>))

Movement == {KeyEv(c, "NONE") : c \in {"Up", "Down", "k", "j", "Enter"}}

C24_ReservedTypeAborts ==
    (/\ reg_call[1] \in {"insert", "insert_rc", "insert_all"}
     /\ reg_call[3] \in {"Mouse", "Resize"})
    => reg_ret.kind = "panic"

BothOf(self, other, type) ==
    /\ self.tag = "ExactMatchEvent" /\ self.e.type = type
    /\ other.tag = "ExactMatchEvent" /\ other.e.type = type

\* C22: a comparison of two registry keys returns; keys that compare equal
\* have equal hashes; two mouse inputs are equal exactly when their kinds and
\* modifiers are, two resize inputs are always equal, and any other two keys
\* are equal exactly when they are the same in every field.
C22_EqHashConsistent ==
    reg_call[1] \in {"eq", "derive_eq"}
    => LET self == reg_call[2]
           other == reg_call[3]
           equal == reg_ret.kind
       IN /\ equal \in {"true", "false"}
          /\ equal = "true" => reg_ret.v = "true"
          /\ IF BothOf(self, other, "Mouse")
             THEN equal = Bool(self.e.kind = other.e.kind
                               /\ self.e.modifiers = other.e.modifiers)
             ELSE IF BothOf(self, other, "Resize")
             THEN equal = "true"
             ELSE equal = Bool(self = other)
====
